---------------------------- MODULE Spec2Model ----------------------------
(***************************************************************************)
(* refl1d freeform layers (src/refl1d/mono.py): the monotone cubic Hermite *)
(* interpolator (monospline, hermite), the inflection counter and the      *)
(* three freeform layer renderers (FreeLayer, FreeInterfaceW,              *)
(* FreeInterface).                                                         *)
(*                                                                         *)
(* Numbers.  A numpy double is modelled as an exact rational n/d, d > 0,   *)
(* in lowest terms, or as one of the IEEE specials: +inf is 1/0, -inf is   *)
(* -1/0 and NaN is 0/0.  Rounding of doubles and the sign of zero are not  *)
(* modelled; sqrt, which has no rational value in general, is rounded up   *)
(* to a multiple of 1/SqrtScale.  Arrays are 1-based sequences, so the     *)
(* 0-based index k of the source is k+1 here.                              *)
(***************************************************************************)
EXTENDS Integers, Sequences, FiniteSets, TLC

VARIABLES
    layer,   \* the layer object: its kind and its stored parameter values
    slabs,   \* the slab buffer: the records appended by slabs.extend, in order
    args,    \* the arguments of a direct call of a module-level function
    call     \* the last operation: its name, outcome and local values

vars == <<layer, slabs, args, call>>

-----------------------------------------------------------------------------
(* Doubles as rationals with inf and NaN *)

Abs(i) == IF i < 0 THEN -i ELSE i

Sign(i) == IF i < 0 THEN -1 ELSE IF i > 0 THEN 1 ELSE 0

RECURSIVE GCD(_, _)
GCD(a, b) == IF b = 0 THEN a ELSE GCD(b, a % b)

\* n/d in lowest terms; d = 0 gives +inf, -inf or NaN by the sign of n
Q(n, d) ==
    IF d = 0 THEN [n |-> Sign(n), d |-> 0]
    ELSE LET s == IF d < 0 THEN -1 ELSE 1
             g == GCD(Abs(n), Abs(d))
         IN [n |-> (s * n) \div g, d |-> (s * d) \div g]

Z(i) == [n |-> i, d |-> 1]

Zero == Z(0)

One == Z(1)

NaN == [n |-> 0, d |-> 0]

IsNaN(a) == a.n = 0 /\ a.d = 0

IsInf(a) == a.n # 0 /\ a.d = 0

IsFinite(a) == a.d > 0

Neg(a) == [n |-> -a.n, d |-> a.d]

Add(a, b) ==
    IF IsNaN(a) \/ IsNaN(b) THEN NaN
    ELSE IF IsInf(a) /\ IsInf(b) THEN (IF a.n = b.n THEN a ELSE NaN)
    ELSE IF IsInf(a) THEN a
    ELSE IF IsInf(b) THEN b
    ELSE Q(a.n * b.d + b.n * a.d, a.d * b.d)

Sub(a, b) == Add(a, Neg(b))

\* cross-reduced first, so that the products stay small
Mul(a, b) ==
    IF a.d = 0 \/ b.d = 0 THEN Q(a.n * b.n, 0)
    ELSE LET g1 == GCD(Abs(a.n), b.d)
             g2 == GCD(Abs(b.n), a.d)
         IN Q((a.n \div g1) * (b.n \div g2), (a.d \div g2) * (b.d \div g1))

\* 1/0 is +inf, 1/inf is 0, 1/NaN is NaN
Recip(a) ==
    IF a.n > 0 THEN [n |-> a.d, d |-> a.n]
    ELSE IF a.n < 0 THEN [n |-> -a.d, d |-> -a.n]
    ELSE [n |-> Sign(a.d), d |-> 0]

Div(a, b) == Mul(a, Recip(b))

\* IEEE comparisons: every comparison with NaN is false
Lt(a, b) ==
    /\ ~IsNaN(a)
    /\ ~IsNaN(b)
    /\ IF IsInf(a) /\ IsInf(b) THEN a.n < b.n ELSE a.n * b.d < b.n * a.d

Eq(a, b) == ~IsNaN(a) /\ ~IsNaN(b) /\ a = b

Le(a, b) == Lt(a, b) \/ Eq(a, b)

Gt(a, b) == Lt(b, a)

Ge(a, b) == Le(b, a)

\* the precision of the modelled square root
SqrtScale == 64

RECURSIVE CeilRoot(_, _, _)
\* the least k >= lo with k*k*den >= num
CeilRoot(num, den, lo) ==
    IF lo * lo * den >= num THEN lo ELSE CeilRoot(num, den, lo + 1)

RECURSIVE FloorRoot(_, _)
\* the greatest k >= lo with k*k <= i, i >= 0
FloorRoot(i, lo) == IF (lo + 1) * (lo + 1) > i THEN lo ELSE FloorRoot(i, lo + 1)

\* numpy.sqrt: exact on the square of a rational, else rounded up to 1/SqrtScale
Sqrt(a) ==
    IF IsNaN(a) \/ a.n < 0 THEN NaN
    ELSE IF IsInf(a) THEN a
    ELSE LET rn == FloorRoot(a.n, 0)
             rd == FloorRoot(a.d, 0)
         IN IF rn * rn = a.n /\ rd * rd = a.d THEN Q(rn, rd)
            ELSE Q(CeilRoot(a.n * SqrtScale * SqrtScale, a.d,
                            (rn * SqrtScale) \div (rd + 1)),
                   SqrtScale)

-----------------------------------------------------------------------------
(* numpy array helpers *)

\* the array with the elements f[1], ..., f[n], each computed once
Arr(f) == << >> \o f

\* numpy.diff
Diff(s) == Arr([i \in 1..(Len(s) - 1) |-> Sub(s[i + 1], s[i])])

RECURSIVE CumSumFrom(_, _, _)
CumSumFrom(s, i, acc) ==
    IF i > Len(s) THEN << >>
    ELSE LET t == Add(acc, s[i]) IN <<t>> \o CumSumFrom(s, i + 1, t)

\* numpy.cumsum
CumSum(s) == CumSumFrom(s, 1, Zero)

\* numpy's ordering of doubles for sorting and searching: NaN sorts last
NpLt(a, b) == Lt(a, b) \/ (IsNaN(b) /\ ~IsNaN(a))

RECURSIVE BinSearch(_, _, _, _)
BinSearch(arr, key, lo, hi) ==
    IF lo >= hi THEN lo
    ELSE LET mid == lo + ((hi - lo) \div 2)
         IN IF NpLt(arr[mid + 1], key) THEN BinSearch(arr, key, mid + 1, hi)
            ELSE BinSearch(arr, key, lo, mid)

\* numpy.searchsorted(arr, key), side='left': a 0-based insertion index
SearchSorted(arr, key) == BinSearch(arr, key, 0, Len(arr))

-----------------------------------------------------------------------------
(* monospline and hermite *)

\* x = hstack((x[0]-1, x, x[-1]+1))
ExtendX(x) == <<Sub(x[1], One)>> \o x \o <<Add(x[Len(x)], One)>>

\* y = hstack((y[0], y, y[-1]))
ExtendY(y) == <<y[1]>> \o y \o <<y[Len(y)]>>

\* delta = dy/dx of the extended knots
Secants(xe, ye) ==
    LET dx == Diff(xe)
        dy == Diff(ye)
    IN Arr([i \in 1..Len(dx) |-> Div(dy[i], dx[i])])

\* m = hstack((0, (delta[1:]+delta[:-1])/2, 0))
MeanTangents(delta) ==
    <<Zero>>
    \o Arr([i \in 1..(Len(delta) - 1) |-> Div(Add(delta[i + 1], delta[i]), Z(2))])
    \o <<Zero>>

\* alpha = m[:-1]/delta, computed once from the mean tangents
Alpha(m0, delta) == Arr([i \in 1..Len(delta) |-> Div(m0[i], delta[i])])

\* beta = m[1:]/delta, computed once from the mean tangents
Beta(m0, delta) == Arr([i \in 1..Len(delta) |-> Div(m0[i + 1], delta[i])])

\* one pass of the loop body, for segment i, on the tangents m so far
LimitStep(m, i, dy, delta, alpha, beta) ==
    LET d == Add(Mul(alpha[i], alpha[i]), Mul(beta[i], beta[i]))
    IN IF Eq(dy[i], Zero) \/ Eq(alpha[i], Zero) \/ Eq(beta[i], Zero)
       THEN [m EXCEPT ![i] = Zero, ![i + 1] = Zero]
       ELSE IF Gt(d, Z(9))
       THEN LET tau == Div(Z(3), Sqrt(d))
            IN [m EXCEPT ![i] = Mul(Mul(tau, alpha[i]), delta[i]),
                         ![i + 1] = Mul(Mul(tau, beta[i]), delta[i])]
       ELSE m

RECURSIVE LimitLoop(_, _, _, _, _, _)
\* for i in range(len(m)-1), in order
LimitLoop(m, i, dy, delta, alpha, beta) ==
    IF i > Len(m) - 1 THEN m
    ELSE LimitLoop(LimitStep(m, i, dy, delta, alpha, beta), i + 1,
                   dy, delta, alpha, beta)

\* the tangent array m that monospline hands to hermite
Tangents(x, y) ==
    LET xe == ExtendX(x)
        ye == ExtendY(y)
        delta == Secants(xe, ye)
        m0 == MeanTangents(delta)
    IN LimitLoop(m0, 1, Diff(ye), delta, Alpha(m0, delta), Beta(m0, delta))

\* the width floor 1e-10 of hermite
HFloor == Div(One, Mul(Z(100000), Z(100000)))

\* h[h<=1e-10] = 1e-10.  Every positive number of the model is above 1e-10,
\* so h <= 1e-10 is h <= 0 here.
FloorWidth(h) == IF Le(h, Zero) THEN HFloor ELSE h

\* a faulty cubic, with the weights of the two end tangents exchanged in the
\* quadratic coefficient: knot exactness tells it from the cubic of the code
HermiteCubicExchanged(x, y, m, idx, xt) ==
    LET h == FloorWidth(Sub(x[idx + 2], x[idx + 1]))
        s == Div(Sub(y[idx + 2], y[idx + 1]), h)
        v == Sub(xt, x[idx + 1])
        ml == m[idx + 1]
        mr == m[idx + 2]
        c3 == Div(Sub(Add(ml, mr), Mul(Z(2), s)), Mul(h, h))
        c2 == Div(Sub(Sub(Mul(Z(3), s), ml), Mul(Z(2), mr)), h)
    IN Add(Mul(Add(Mul(Add(Mul(c3, v), c2), v), ml), v), y[idx + 1])

\* the cubic of segment idx (0-based) at xt
HermiteCubic(x, y, m, idx, xt) ==
    LET h == FloorWidth(Sub(x[idx + 2], x[idx + 1]))
        s == Div(Sub(y[idx + 2], y[idx + 1]), h)
        v == Sub(xt, x[idx + 1])
        ml == m[idx + 1]
        mr == m[idx + 2]
        c3 == Div(Sub(Add(ml, mr), Mul(Z(2), s)), Mul(h, h))
        c2 == Div(Sub(Sub(Mul(Z(3), s), Mul(Z(2), ml)), mr), h)
    IN Add(Mul(Add(Mul(Add(Mul(c3, v), c2), v), ml), v), y[idx + 1])

\* idx = searchsorted(x[1:-1], xt)
SegmentOf(x, xt) == SearchSorted(SubSeq(x, 2, Len(x) - 1), xt)

\* hermite(x, y, m, xt) for an array xt of query positions
Hermite(x, y, m, xt) ==
    Arr([k \in 1..Len(xt) |-> HermiteCubic(x, y, m, SegmentOf(x, xt[k]), xt[k])])

\* dy/dx raises ValueError when the two arrays do not broadcast
Broadcasts(x, y) == Len(x) = Len(y) \/ Len(x) = 1 \/ Len(y) = 1

\* monospline(x, y, xt) raises exactly when the extended arrays differ in length
MonosplineRaises(x, y) == ~Broadcasts(Diff(ExtendX(x)), Diff(ExtendY(y)))

\* monospline(x, y, xt)
Monospline(x, y, xt) == Hermite(ExtendX(x), ExtendY(y), Tangents(x, y), xt)

-----------------------------------------------------------------------------
(* Direct calls of monospline: the arguments are drawn at Init *)

\* the largest number of knots of a drawn knot sequence
MaxKnots == 3

\* the gaps between consecutive knot positions
KnotGaps == {1, 2}

\* the steps between consecutive knot values
KnotSteps == {-3, -1, 0, 1, 3}

\* the steps of a monotone knot sequence
MonoSteps == {0, 1, 3}

\* the sequences of length n over the set S
SeqsOf(S, n) == [1..n -> S]

RECURSIVE PartialSums(_, _, _)
\* the integers start, start+s[1], start+s[1]+s[2], ... as numbers
PartialSums(s, i, start) ==
    IF i > Len(s) THEN <<Z(start)>>
    ELSE <<Z(start)>> \o PartialSums(s, i + 1, start + s[i])

\* knot sequences of n knots from gaps and steps
KnotsFrom(gaps, steps) ==
    [x |-> PartialSums(gaps, 1, 0), y |-> PartialSums(steps, 1, 0)]

\* the positions x[1], x[1]+1/2, ..., x[n]: every knot and every half unit between
HalfGrid(x) ==
    LET n == 2 * (x[Len(x)].n - x[1].n)
    IN Arr([j \in 1..(n + 1) |-> Add(x[1], Q(j - 1, 2))])

\* the query arrays tried on the knots x: the knots themselves, the half grid
Queries(x) == {x, HalfGrid(x)}

NoLayer == [kind |-> "none"]

NoCall == [op |-> "none"]

\* a call monospline(x, y, xt) from outside, recording the tangent array
CallMonospline ==
    /\ call = NoCall
    /\ "x" \in DOMAIN args
    /\ call' = IF MonosplineRaises(args.x, args.y)
               THEN [op |-> "monospline", raised |-> "ValueError"]
               ELSE [op |-> "monospline", raised |-> "no",
                     m |-> Tangents(args.x, args.y),
                     p |-> Monospline(args.x, args.y, args.xt)]
    /\ UNCHANGED <<layer, slabs, args>>

\* the caller drops the result and is ready for the next call
Return ==
    /\ call # NoCall
    /\ call' = NoCall
    /\ UNCHANGED <<layer, slabs, args>>

\* any knots: strictly increasing positions, values free
InitKnots ==
    /\ layer = NoLayer
    /\ slabs = << >>
    /\ call = NoCall
    /\ \E n \in 1..(MaxKnots - 1) :
         \E gaps \in SeqsOf(KnotGaps, n), steps \in SeqsOf(KnotSteps, n) :
           LET k == KnotsFrom(gaps, steps)
           IN \E xt \in Queries(k.x) : args = [x |-> k.x, y |-> k.y, xt |-> xt]

\* monotone knots: four knots, values non-decreasing or non-increasing
InitMono ==
    /\ layer = NoLayer
    /\ slabs = << >>
    /\ call = NoCall
    /\ \E gaps \in SeqsOf(KnotGaps, 3), steps \in SeqsOf(MonoSteps, 3),
          dir \in {-1, 1} :
           LET k == KnotsFrom(gaps, [i \in 1..3 |-> dir * steps[i]])
           IN \E xt \in Queries(k.x) : args = [x |-> k.x, y |-> k.y, xt |-> xt]

NextMono == CallMonospline \/ Return

SpecKnots == InitKnots /\ [][NextMono]_vars

SpecMono == InitMono /\ [][NextMono]_vars

-----------------------------------------------------------------------------
(* Claims on monospline and hermite *)

Called(op) == call.op = op /\ call.raised = "no"

NonDecreasing(y) == \A i \in 1..(Len(y) - 1) : Le(y[i], y[i + 1])

NonIncreasing(y) == \A i \in 1..(Len(y) - 1) : Ge(y[i], y[i + 1])

\* v lies between a and b, whichever is larger
Between(v, a, b) == (Le(a, v) /\ Le(v, b)) \/ (Le(b, v) /\ Le(v, a))

\* C2: on monotone knot values, the value monospline returns at a query
\* position between two consecutive knots lies between the two knot values.
C2_NoOvershoot ==
    (Called("monospline") /\ (NonDecreasing(args.y) \/ NonIncreasing(args.y))) =>
        \A k \in 1..Len(args.xt), i \in 1..(Len(args.x) - 1) :
            (Le(args.x[i], args.xt[k]) /\ Le(args.xt[k], args.x[i + 1])) =>
                Between(call.p[k], args.y[i], args.y[i + 1])

C8_FlatSegmentTangents ==
    Called("monospline") =>
        LET delta == Secants(ExtendX(args.x), ExtendY(args.y))
        IN \A i \in 1..Len(delta) :
              Eq(delta[i], Zero) => (Eq(call.m[i], Zero) /\ Eq(call.m[i + 1], Zero))

-----------------------------------------------------------------------------
(* inflections and count_inflections *)

\* delta[j] of count_inflections for the interior point j (1-based, 2..n-1)
Deviation(x, y, j) ==
    LET m == Div(Sub(y[j + 1], y[j - 1]), Sub(x[j + 1], x[j - 1]))
        b == Sub(y[j + 1], Mul(m, x[j + 1]))
    IN Sub(y[j], Add(Mul(m, x[j]), b))

\* delta[nonzero(delta)]: NaN counts as nonzero
NonZero(a) == ~Eq(a, Zero)

\* a faulty count that keeps the zero deviations: a point on the line of its
\* neighbours then hides the sign change across it
CountInflectionsUnfiltered(x, y) ==
    LET delta == Arr([j \in 1..(Len(x) - 2) |-> Deviation(x, y, j + 1)])
    IN Cardinality({k \in 1..(Len(delta) - 1) :
                       Lt(Mul(delta[k + 1], delta[k]), Zero)})

\* count_inflections(x, y)
CountInflections(x, y) ==
    LET all == Arr([j \in 1..(Len(x) - 2) |-> Deviation(x, y, j + 1)])
        delta == SelectSeq(all, NonZero)
    IN Cardinality({k \in 1..(Len(delta) - 1) :
                       Lt(Mul(delta[k + 1], delta[k]), Zero)})

\* inflections(dx, dy)
Inflections(dx, dy) ==
    CountInflections(<<Zero>> \o CumSum(dx), <<Zero>> \o CumSum(dy))

\* the largest number of steps of a drawn step sequence
MaxInflSteps == 4

\* the position steps dx (positive) and the value steps dy
InflDx == {1, 2}

InflDy == {-1, 0, 1}

Nums(s) == Arr([i \in 1..Len(s) |-> Z(s[i])])

CallInflections ==
    /\ call = NoCall
    /\ "dx" \in DOMAIN args
    /\ call' = [op |-> "inflections", raised |-> "no",
                result |-> Inflections(args.dx, args.dy)]
    /\ UNCHANGED <<layer, slabs, args>>

InitInfl ==
    /\ layer = NoLayer
    /\ slabs = << >>
    /\ call = NoCall
    /\ \E n \in 0..MaxInflSteps :
         \E dx \in SeqsOf(InflDx, n), dy \in SeqsOf(InflDy, n) :
            args = [dx |-> Nums(dx), dy |-> Nums(dy)]

NextInfl == CallInflections \/ Return

SpecInfl == InitInfl /\ [][NextInfl]_vars

\* the side of the chord through its neighbours on which point j lies, by
\* cross product: 1 above, -1 below, 0 on it (positions increasing)
ChordSide(x, y, j) ==
    LET c == Sub(Mul(Sub(y[j], y[j - 1]), Sub(x[j + 1], x[j - 1])),
                 Mul(Sub(y[j + 1], y[j - 1]), Sub(x[j], x[j - 1])))
    IN Sign(c.n)

RECURSIVE SignChanges(_, _, _, _, _)
\* the sign changes among the nonzero sides of the points j..n-1, after `last`
SignChanges(x, y, j, last, acc) ==
    IF j > Len(x) - 1 THEN acc
    ELSE LET sd == ChordSide(x, y, j)
         IN IF sd = 0 THEN SignChanges(x, y, j + 1, last, acc)
            ELSE SignChanges(x, y, j + 1, sd,
                             IF last * sd < 0 THEN acc + 1 ELSE acc)

\* C7: inflections(dx, dy) is the number of sign changes between consecutive
\* nonzero deviations of the interior points of the cumulative polyline from
\* the chord through their neighbours: a natural number, 0 for collinear
\* points and for fewer than 3 points, positive for the zig-zag example.
C7_InflectionCount ==
    Called("inflections") =>
        LET x == <<Zero>> \o CumSum(args.dx)
            y == <<Zero>> \o CumSum(args.dy)
        IN /\ call.result \in Nat
           /\ call.result = SignChanges(x, y, 2, 0, 0)
           /\ (\A j \in 2..(Len(x) - 1) : ChordSide(x, y, j) = 0) => call.result = 0
           /\ Len(x) < 3 => call.result = 0
           /\ (args.dx = Nums(<<1, 1, 1, 1>>) /\ args.dy = Nums(<<1, -1, 1, -1>>))
                 => call.result > 0

\* C7's case: the zig-zag has been counted
C7_Witness ==
    /\ Called("inflections")
    /\ args.dx = Nums(<<1, 1, 1, 1>>)
    /\ args.dy = Nums(<<1, -1, 1, -1>>)
    /\ call.result = 2

-----------------------------------------------------------------------------
(* The slab buffer: microslabs and extend *)

\* the buffer's microslab step size
MicroStep == 1

Min(a, b) == IF a < b THEN a ELSE b

Max(a, b) == IF a > b THEN a ELSE b

\* the least integer >= a, for a finite
Ceil(a) == -((-a.n) \div a.d)

\* the k-th microslab edge of a layer of the given thickness, k = 0..n
Edge(k, thickness) ==
    LET e == Z(k * MicroStep) IN IF Lt(e, thickness) THEN e ELSE thickness

\* slabs.microslabs(thickness): the widths Pw and the positions Pz of the
\* microslabs spanning [0, thickness]; a position is the microslab's centre
\* or its right edge, by the buffer's convention
Microslabs(buf, thickness) ==
    LET n == Ceil(Div(thickness, Z(MicroStep)))
    IN [Pw |-> Arr([k \in 1..n |->
                   Sub(Edge(k, thickness), Edge(k - 1, thickness))]),
        Pz |-> Arr([k \in 1..n |->
                  IF buf.grid = "edge" THEN Edge(k, thickness)
                  ELSE Div(Add(Edge(k, thickness), Edge(k - 1, thickness)), Z(2))])]

\* slabs.extend(rho, irho, w, sigma=0): one record appended
Extend(buf, rho, irho, w, sigma) ==
    [buf EXCEPT !.recs = Append(@, [rho |-> rho, irho |-> irho, w |-> w,
                                     sigma |-> sigma])]

\* the sigma of an extend call that passes none
NoSigma == <<Zero>>

\* a[l:r] of Python for 0-based l and r, negative ones counted from the end
Slice(a, l, r) ==
    LET ll == IF l < 0 THEN Max(l + Len(a), 0) ELSE Min(l, Len(a))
        rr == IF r < 0 THEN Max(r + Len(a), 0) ELSE Min(r, Len(a))
    IN SubSeq(a, ll + 1, rr)

\* a[i] of Python raises IndexError outside -len..len-1
IndexOK(a, i) == -Len(a) <= i /\ i < Len(a)

\* a[i] of Python for a 0-based i, a negative one counted from the end
At(a, i) == IF i < 0 THEN a[i + Len(a) + 1] ELSE a[i + 1]

-----------------------------------------------------------------------------
(* FreeInterfaceW and FreeInterface *)

\* thickness = property(_get_thickness, ...) of FreeInterfaceW: sum of the dz
GetThickness(L) ==
    IF Len(L.dz) = 0 THEN Zero ELSE CumSum(L.dz)[Len(L.dz)]

\* a faulty setter that accepts every value silently
SetThicknessAccepts(v) == FALSE

\* _set_thickness(v) of FreeInterfaceW raises unless v = 0, and stores nothing
SetThicknessRaises(v) == ~Eq(v, Zero)

\* a faulty normalization without the guard on a zero sum
NormalizedPUnguarded(dp) ==
    LET p0 == <<Zero>> \o CumSum(dp)
    IN Arr([i \in 1..Len(p0) |-> Div(p0[i], p0[Len(p0)])])

\* p = hstack((0, cumsum(dp))); if p[-1] == 0: p[-1] = 1; p /= p[-1]
NormalizedP(dp) ==
    LET p0 == <<Zero>> \o CumSum(dp)
        p1 == IF Eq(p0[Len(p0)], Zero) THEN [p0 EXCEPT ![Len(p0)] = One] ELSE p0
    IN Arr([i \in 1..Len(p1) |-> Div(p1[i], p1[Len(p1)])])

\* z = hstack((0, cumsum(dz))), and for FreeInterface z *= thickness/z[-1]
KnotZ(L) ==
    LET z0 == <<Zero>> \o CumSum(L.dz)
    IN IF L.kind = "FreeInterfaceW" THEN z0
       ELSE LET f == Div(L.thickness, z0[Len(z0)])
            IN Arr([i \in 1..Len(z0) |-> Mul(z0[i], f)])

\* the thickness a render works with
RenderThickness(L) ==
    IF L.kind = "FreeInterfaceW" THEN KnotZ(L)[Len(L.dz) + 1] ELSE L.thickness

\* (1-profile)*left + profile*right
Blend(profile, left, right) ==
    Arr([k \in 1..Len(profile) |->
           Add(Mul(Sub(One, profile[k]), left), Mul(profile[k], right))])

\* the local values of render up to the first slabs.extend
InterfaceLocals(L, buf) ==
    LET z == KnotZ(L)
        p == NormalizedP(L.dp)
        thickness == RenderThickness(L)
        g == Microslabs(buf, thickness)
        profile == Monospline(z, p, g.Pz)
        lidx == SearchSorted(profile, Q(1, 100))
        ridx == Min(SearchSorted(profile, Q(99, 100)), Len(profile) - 1)
    IN [z |-> z, p |-> p, thickness |-> thickness, Pw |-> g.Pw, Pz |-> g.Pz,
        profile |-> profile, lidx |-> lidx, ridx |-> ridx]

\* the three slabs.extend calls of render, in order
InterfaceExtends(L, buf, loc) ==
    LET Prho == Blend(loc.profile, L.below.rho, L.above.rho)
        Pirho == Blend(loc.profile, L.below.irho, L.above.irho)
        b1 == Extend(buf, <<L.below.rho>>, <<L.below.irho>>,
                     <<At(loc.Pz, loc.lidx)>>, NoSigma)
        b2 == Extend(b1, Slice(Prho, loc.lidx, loc.ridx),
                     Slice(Pirho, loc.lidx, loc.ridx),
                     Slice(loc.Pw, loc.lidx, loc.ridx), NoSigma)
    IN Extend(b2, <<L.above.rho>>, <<L.above.irho>>,
              <<Sub(loc.thickness, At(loc.Pz, loc.ridx))>>, <<L.interface>>)

\* render raises IndexError at Pz[lidx], before anything is appended
InterfaceRaises(loc) == ~IndexOK(loc.Pz, loc.lidx)

\* the largest number of dz/dp segments of a drawn interface layer
MaxSegments == 2

\* the most renders into one buffer before it is cleared
MaxRenders == 2

\* the values the fit gives a dz, a dp and a thickness parameter (limits 0..inf)
DzValues == {Zero, One, Z(2)}

DpValues == {Zero, One}

ThicknessValues == {Zero, One, Z(3)}

\* the values assigned to the thickness attribute from outside
AssignedValues == {Zero, One, Z(-2)}

\* the two neighbours' SLD (rho, irho) and the interface roughness
BelowSLD == [rho |-> Z(2), irho |-> Zero]

AboveSLD == [rho |-> Z(6), irho |-> One]

Roughness == Q(1, 2)

\* the fit updates the value of dz[i] between two evaluations of the sample
SetDz ==
    /\ call = NoCall
    /\ layer.kind \in {"FreeInterfaceW", "FreeInterface"}
    /\ slabs.recs = << >>
    /\ \E i \in 1..Len(layer.dz), v \in DzValues :
          layer' = [layer EXCEPT !.dz[i] = v]
    /\ UNCHANGED <<slabs, args, call>>

\* the fit updates the value of dp[i]
SetDp ==
    /\ call = NoCall
    /\ layer.kind \in {"FreeInterfaceW", "FreeInterface"}
    /\ slabs.recs = << >>
    /\ \E i \in 1..Len(layer.dp), v \in DpValues :
          layer' = [layer EXCEPT !.dp[i] = v]
    /\ UNCHANGED <<slabs, args, call>>

\* the fit updates the value of FreeInterface's own thickness parameter
SetThicknessValue ==
    /\ call = NoCall
    /\ layer.kind = "FreeInterface"
    /\ slabs.recs = << >>
    /\ \E v \in ThicknessValues : layer' = [layer EXCEPT !.thickness = v]
    /\ UNCHANGED <<slabs, args, call>>

\* layer.thickness = v on a FreeInterfaceW: the property's setter
AssignThickness ==
    /\ call = NoCall
    /\ layer.kind = "FreeInterfaceW"
    /\ \E v \in AssignedValues :
          call' = [op |-> "set_thickness", v |-> v,
                   raised |-> IF SetThicknessRaises(v) THEN "ValueError" ELSE "no"]
    /\ UNCHANGED <<layer, slabs, args>>

\* layer.thickness read on a FreeInterfaceW: the property's getter
ReadThickness ==
    /\ call = NoCall
    /\ layer.kind = "FreeInterfaceW"
    /\ call' = [op |-> "get_thickness", raised |-> "no",
                result |-> GetThickness(layer)]
    /\ UNCHANGED <<layer, slabs, args>>

\* layer.render(probe, slabs) of FreeInterfaceW and FreeInterface
RenderInterface ==
    /\ call = NoCall
    /\ layer.kind \in {"FreeInterfaceW", "FreeInterface"}
    /\ Len(slabs.recs) < 3 * MaxRenders
    /\ LET loc == InterfaceLocals(layer, slabs)
       IN IF InterfaceRaises(loc)
          THEN /\ call' = [op |-> "render", raised |-> "IndexError", loc |-> loc]
               /\ slabs' = slabs
          ELSE /\ call' = [op |-> "render", raised |-> "no", loc |-> loc]
               /\ slabs' = InterfaceExtends(layer, slabs, loc)
    /\ UNCHANGED <<layer, args>>

\* a new evaluation of the sample starts from an empty buffer
Clear ==
    /\ call = NoCall
    /\ layer.kind \in {"FreeInterfaceW", "FreeInterface"}
    /\ slabs.recs # << >>
    /\ slabs' = [slabs EXCEPT !.recs = << >>]
    /\ UNCHANGED <<layer, args, call>>

\* the constructed layers: dz and dp given, one dz for every dp
InitInterface ==
    /\ args = << >>
    /\ call = NoCall
    /\ \E g \in {"edge", "center"} : slabs = [grid |-> g, recs |-> << >>]
    /\ \E n \in 1..MaxSegments :
         \E dz \in SeqsOf(DzValues, n), dp \in SeqsOf(DpValues, n) :
            \/ layer = [kind |-> "FreeInterfaceW", interface |-> Roughness,
                        below |-> BelowSLD, above |-> AboveSLD,
                        dz |-> dz, dp |-> dp]
            \/ \E t \in ThicknessValues :
                 layer = [kind |-> "FreeInterface", interface |-> Roughness,
                          below |-> BelowSLD, above |-> AboveSLD,
                          dz |-> dz, dp |-> dp, thickness |-> t]

NextInterface ==
    \/ SetDz
    \/ SetDp
    \/ SetThicknessValue
    \/ AssignThickness
    \/ ReadThickness
    \/ RenderInterface
    \/ Clear
    \/ Return

SpecInterface == InitInterface /\ [][NextInterface]_vars

-----------------------------------------------------------------------------
(* Claims on FreeInterfaceW and FreeInterface *)

RECURSIVE SumFrom(_, _)
\* s[i] + ... + s[n]
SumFrom(s, i) == IF i > Len(s) THEN Zero ELSE Add(s[i], SumFrom(s, i + 1))

AllZero(s) == \A i \in 1..Len(s) : Eq(s[i], Zero)

\* a step in which the call `op` is made
Calls(op) == call = NoCall /\ call'.op = op

\* C5: reading FreeInterfaceW.thickness yields the current sum of the dz
\* values; assigning a nonzero value raises ValueError, assigning 0 does not;
\* neither an assignment nor a render changes the stored layer or the buffer's
\* earlier records.
C5_ThicknessReadOnly ==
    /\ [](call.op = "get_thickness" => Eq(call.result, SumFrom(layer.dz, 1)))
    /\ [][Calls("set_thickness") =>
            /\ layer' = layer
            /\ slabs' = slabs
            /\ (call'.raised = "ValueError") = (call'.v # Zero)
            /\ (call'.raised = "no") = (call'.v = Zero)]_vars
    /\ [][(Calls("render") \/ Calls("get_thickness")) => layer' = layer]_vars

\* C5's case: a nonzero assignment after a render and an update has raised
C5_Witness ==
    /\ call.op = "set_thickness"
    /\ call.raised = "ValueError"
    /\ slabs.recs # << >>
    /\ Gt(SumFrom(layer.dz, 1), One)

ThreeSlabs(L, loc) ==
    LET f == loc.profile
        n == loc.ridx - loc.lidx
        mid(a, b) == Arr([k \in 1..n |->
                            Add(Mul(Sub(One, f[loc.lidx + k]), a),
                                Mul(f[loc.lidx + k], b))])
    IN << [rho |-> <<L.below.rho>>, irho |-> <<L.below.irho>>,
           w |-> <<loc.Pz[loc.lidx + 1]>>, sigma |-> NoSigma],
          [rho |-> mid(L.below.rho, L.above.rho),
           irho |-> mid(L.below.irho, L.above.irho),
           w |-> Arr([k \in 1..n |-> loc.Pw[loc.lidx + k]]),
           sigma |-> NoSigma],
          [rho |-> <<L.above.rho>>, irho |-> <<L.above.irho>>,
           w |-> <<Sub(loc.thickness, loc.Pz[loc.ridx + 1])>>,
           sigma |-> <<L.interface>>] >>

\* C9: every render of FreeInterfaceW and FreeInterface appends exactly three
\* records: the flat `below` slab up to the 1% crossing, the blended profile
\* between the crossings, the flat `above` slab carrying sigma for the rest;
\* and it changes no stored layer parameter.
C9_ThreeAppends ==
    [][Calls("render") =>
         /\ layer' = layer
         /\ call'.raised = "no"
         /\ slabs'.recs = slabs.recs \o ThreeSlabs(layer, call'.loc)]_vars

\* C10: in every render the crossing indices satisfy
\* 0 <= lidx <= ridx <= len(profile)-1, no index is out of range, and every
\* appended width is non-negative.
C10_CrossingIndices ==
    call.op = "render" =>
        /\ 0 <= call.loc.lidx
        /\ call.loc.lidx <= call.loc.ridx
        /\ call.loc.ridx <= Len(call.loc.profile) - 1
        /\ call.raised = "no"
        /\ \A r \in 1..Len(slabs.recs) :
              \A k \in 1..Len(slabs.recs[r].w) : Ge(slabs.recs[r].w[k], Zero)

-----------------------------------------------------------------------------
(* FreeLayer *)

\* the largest number of control values of a drawn FreeLayer
MaxControls == 2

\* FreeLayer.__init__ raises ValueError: z values given, but not one for each
\* control value
FreeLayerRaises(a) ==
    \/ (Len(a.rhoz) > 0 /\ Len(a.rhoz) # Len(a.rho))
    \/ (Len(a.irhoz) > 0 /\ Len(a.irhoz) # Len(a.irho))

\* the object FreeLayer.__init__ leaves behind
NewFreeLayer(a) ==
    [kind |-> "FreeLayer", thickness |-> a.thickness,
     left |-> a.left, right |-> a.right,
     rho |-> a.rho, irho |-> a.irho, rhoz |-> a.rhoz, irhoz |-> a.irhoz]

\* the knot arrays render builds and the two monospline calls it makes:
\* rho = hstack((left_rho, rho, right_rho)), rhoz = hstack((0, rhoz, 1)),
\* Prho = monospline(rho, rhoz, Pz), and the same for irho
FreeLayerLocals(L, buf) ==
    LET g == Microslabs(buf, L.thickness)
        rho == <<L.left.rho>> \o L.rho \o <<L.right.rho>>
        rhoz == <<Zero>> \o L.rhoz \o <<One>>
        irho == <<L.left.irho>> \o L.irho \o <<L.right.irho>>
        irhoz == <<Zero>> \o L.irhoz \o <<One>>
    IN [Pw |-> g.Pw, Pz |-> g.Pz, rho |-> rho, rhoz |-> rhoz,
        irho |-> irho, irhoz |-> irhoz]

\* render raises ValueError in one of its two monospline calls
FreeLayerRenderRaises(loc) ==
    MonosplineRaises(loc.rho, loc.rhoz) \/ MonosplineRaises(loc.irho, loc.irhoz)

\* slabs.extend(rho=[Prho], irho=[Pirho], w=Pw)
FreeLayerExtend(buf, loc) ==
    Extend(buf, Monospline(loc.rho, loc.rhoz, loc.Pz),
           Monospline(loc.irho, loc.irhoz, loc.Pz), loc.Pw, NoSigma)

\* FreeLayer(thickness, left, right, rho, irho, rhoz, irhoz)
Construct ==
    /\ call = NoCall
    /\ layer = NoLayer
    /\ "rho" \in DOMAIN args
    /\ IF FreeLayerRaises(args)
       THEN /\ call' = [op |-> "FreeLayer", raised |-> "ValueError"]
            /\ layer' = layer
       ELSE /\ call' = [op |-> "FreeLayer", raised |-> "no"]
            /\ layer' = NewFreeLayer(args)
    /\ UNCHANGED <<slabs, args>>

\* layer.render(probe, slabs) of FreeLayer
RenderLayer ==
    /\ call = NoCall
    /\ layer.kind = "FreeLayer"
    /\ Len(slabs.recs) < MaxRenders
    /\ LET loc == FreeLayerLocals(layer, slabs)
       IN IF FreeLayerRenderRaises(loc)
          THEN /\ call' = [op |-> "render", raised |-> "ValueError", loc |-> loc]
               /\ slabs' = slabs
          ELSE /\ call' = [op |-> "render", raised |-> "no", loc |-> loc]
               /\ slabs' = FreeLayerExtend(slabs, loc)
    /\ UNCHANGED <<layer, args>>

\* the layer thicknesses, control values and control positions drawn; the
\* control values are drawn non-decreasing between the neighbours' SLD
LayerThickness == {Zero, Z(2), Z(4)}

RhoValues == {Z(2), Z(4)}

IrhoValues == {Q(1, 2)}

ZValues == {Q(1, 4), Q(1, 2), Q(3, 4)}

LeftSLD == [rho |-> Zero, irho |-> Zero]

RightSLD == [rho |-> Z(6), irho |-> One]

\* the sequences over S of length at most n
SeqsUpTo(S, n) == UNION {SeqsOf(S, k) : k \in 0..n}

InitLayer ==
    /\ layer = NoLayer
    /\ call = NoCall
    /\ \E g \in {"edge", "center"} : slabs = [grid |-> g, recs |-> << >>]
    /\ \E t \in LayerThickness,
          rho \in {r \in SeqsUpTo(RhoValues, MaxControls) : NonDecreasing(r)},
          rhoz \in SeqsUpTo(ZValues, MaxControls),
          irho \in SeqsUpTo(IrhoValues, 1),
          irhoz \in SeqsUpTo(ZValues \ {Q(1, 4), Q(3, 4)}, 1) :
            args = [thickness |-> t, left |-> LeftSLD, right |-> RightSLD,
                    rho |-> rho, irho |-> irho, rhoz |-> rhoz, irhoz |-> irhoz]

NextLayer == Construct \/ RenderLayer \/ Return

SpecLayer == InitLayer /\ [][NextLayer]_vars

\* the knot positions of n control values equally spaced in [0,1]:
\* 0, 1/(n+1), ..., 1
EquallySpaced(n) == Arr([i \in 1..(n + 2) |-> Q(i - 1, n + 1)])

StrictlyIncreasing(s) == \A i \in 1..(Len(s) - 1) : Lt(s[i], s[i + 1])

\* C1: with explicit rhoz, the rho profile FreeLayer.render writes is the
\* interpolation of the knots at (0, rhoz..., 1)*thickness with the values
\* (left rho, rho..., right rho): rho[k] at depth rhoz[k]*thickness, the right
\* neighbour's rho at depth thickness, and nothing outside the neighbours' range.
C1_FreeLayerProfile ==
    (Called("render") /\ layer.kind = "FreeLayer" /\ Len(layer.rhoz) > 0
       /\ StrictlyIncreasing(call.loc.rhoz) /\ NonDecreasing(call.loc.rho)) =>
        LET Pz == call.loc.Pz
            Prho == slabs.recs[Len(slabs.recs)].rho
            depth == Arr([k \in 1..Len(call.loc.rhoz) |->
                            Mul(call.loc.rhoz[k], layer.thickness)])
        IN /\ Len(Prho) = Len(Pz)
           /\ \A j \in 1..Len(Pz) :
                /\ \A k \in 1..Len(depth) :
                      Eq(Pz[j], depth[k]) => Eq(Prho[j], call.loc.rho[k])
                /\ Between(Prho[j], layer.left.rho, layer.right.rho)

\* C4: a FreeLayer given control values and no z values is constructed, and
\* its render hands the interpolator as many positions, equally spaced in
\* [0,1], as values, len(rho)+2, and completes without error.
C4_DefaultKnots ==
    /\ (call.op = "FreeLayer" /\ args.rhoz = << >> /\ args.irhoz = << >>)
          => call.raised = "no"
    /\ (call.op = "render" /\ layer.kind = "FreeLayer") =>
          /\ (layer.rhoz = << >> /\ Len(layer.rho) >= 1) =>
                /\ call.loc.rhoz = EquallySpaced(Len(layer.rho))
                /\ Len(call.loc.rhoz) = Len(call.loc.rho)
          /\ (layer.irhoz = << >> /\ Len(layer.irho) >= 1) =>
                /\ call.loc.irhoz = EquallySpaced(Len(layer.irho))
                /\ Len(call.loc.irhoz) = Len(call.loc.irho)
          /\ (layer.rhoz = << >> /\ layer.irhoz = << >>) => call.raised = "no"

=============================================================================
